---- MODULE Spec2Model ----
(***************************************************************************)
(* A model of tandem's supervision engine: ProcessManager.Run and its      *)
(* shutdown coordinator (waitForExit), process.Run / Interrupt / Kill, and *)
(* the output multiplexer (PipeOutput, ClosePipe, WriteLine, scanLines).   *)
(*                                                                         *)
(* Every goroutine of the program is a thread of the model with its own    *)
(* program counter; one action is one step of one goroutine between two    *)
(* points where it synchronises with, or can be observed by, another.      *)
(***************************************************************************)
EXTENDS Integers, Sequences, FiniteSets, TLC

\* ------------------------------------------------------------------ bounds

\* Number of commands handed to New.
NumProcs == 2

\* Number of external interrupt requests (SIGINT/SIGTERM) the operator sends.
MaxSignals == 2

\* Number of complete lines a child writes to its terminal.
MaxLines == 1

\* Number of lines a child writes where the order of its lines is looked at.
MaxOrderLines == 2

Procs == 1..NumProcs

\* The exit codes a child can end with on its own (ExitCode() of exec.ExitError).
ExitCodes == {0, 1, 2}

\* ExitCode() of a child that a signal terminated.
SignalledCode == -1

\* ------------------------------------------------------------------- state

VARIABLES
    cfgCmds,       \* Config.Cmds: the commands handed to New, as strings
    pkg,           \* the package.json under Config.Root: "missing", "malformed", "ok"
    procs,         \* pm.procs: name and command of each process New has made
    maxNameLength, \* multiOutput.maxNameLength
    newErr,        \* the error New returned, or "nil"
    silent,        \* Config.Silent / process.silent
    interrupts,    \* how many interrupt requests the operator is going to send
    lines,         \* how many lines each command is going to write
    codes,         \* the exit codes the commands can end with on their own
    mpc,           \* ProcessManager.Run: position of the calling thread
    cpc,           \* waitForExit goroutine: position of the coordinator
    timer,         \* the time.After channel of waitForTimeoutOrInterrupt
    done,          \* pm.done: number of buffered values (capacity len(procs))
    wg,            \* pm.procWg counter
    delivered,     \* number of signals the operator has sent since signal.Notify
    rpc,           \* runProcess goroutine per process
    runErr,        \* the result of p.Cmd.Run()
    Process,       \* p.Process != nil
    ProcessState,  \* p.ProcessState != nil
    child,         \* the OS child of the command: "none", "alive", "dead"
    sub,           \* a process the command forked into its process group:
                   \* "never" (it forks none), "none", "alive", "dead"
    exitCode,      \* the status the child died with
    produced,      \* number of lines the child has written to its tty
    sigSent,       \* signals delivered to the child's process group, in order
    ipc,           \* `go proc.Interrupt()` goroutine per process
    kpc,           \* `go proc.Kill()` goroutine per process
    intCalls,      \* how many times Interrupt() was invoked on the process
    killCalls,     \* how many times Kill() was invoked on the process
    pty,           \* the process's ptyPipe: "unopened", "open", "closed"; or
                   \* "unavailable": no pseudo-terminal can be allocated for it
    ptyBuf,        \* lines in the pseudo-terminal, not yet read by the scanner
    spc,           \* scanLines goroutine per process
    scanBuf,       \* lines in the scanner's bufio.Reader, not yet called back
    mutex,         \* multiOutput.mutex: its holder, or NoOne
    wl,            \* position of each writer inside WriteLine
    tail,          \* the bytes of os.Stdout after its last newline
    sink,          \* the complete records of os.Stdout, per labelled process
    scanErr,       \* what scanLines returned to PipeOutput's goroutine, per
                   \* process: "none" until it has, then "nil" or the error
    glob,          \* wildcardMatch called by itself: its pattern,
    input,         \* its s,
    matched,       \* and what it returned, in a sequence that is empty before
    npmResult,     \* parseNpmScripts called by itself: its outcome, in a
                   \* sequence that is empty before
    stream,        \* scanLines called by itself: every byte its reader r is
                   \* going to deliver,
    unread,        \* the bytes r has not delivered so far,
    ending,        \* the error r returns once it has delivered them all,
    reader,        \* the bytes buffered in the bufio.Reader,
    readerErr,     \* the error the bufio.Reader has pending, or "nil",
    buf,           \* the bytes.Buffer the parts of a long line are put in,
    called,        \* the arguments the callback has been invoked with,
    ret,           \* and what scanLines returned, "none" before
    closeErrs      \* ClosePipe called from outside process.Run: per process,
                   \* what pty.Close() and tty.Close() returned at each call

vars == <<cfgCmds, pkg, procs, maxNameLength, newErr, silent, interrupts, lines, codes, mpc, cpc, timer, done, wg, delivered, rpc, runErr, Process,
          ProcessState, child, sub, exitCode, produced, sigSent, ipc, kpc,
          intCalls, killCalls, pty, ptyBuf, spc, scanBuf, mutex, wl, tail, sink,
          scanErr, glob, input, matched, npmResult, stream, unread, ending,
          reader, readerErr, buf, called, ret, closeErrs>>

\* What New has made of its configuration; Run leaves it alone.
newVars == <<cfgCmds, pkg, procs, maxNameLength, newErr>>

\* The functions called by themselves, apart from a run: wildcardMatch,
\* parseNpmScripts, scanLines; and ClosePipe called by another than
\* process.Run.
matchVars == <<glob, input, matched>>
linesVars == <<stream, unread, ending, reader, readerErr, buf, called, ret>>
apartVars == <<matchVars, npmResult, linesVars, closeErrs>>

\* What a run is given from outside, fixed from its start.
envVars == <<newVars, silent, interrupts, lines, codes, apartVars>>

\* The goroutines that call WriteLine, per process.
WriterKinds == {"run", "scan", "int", "kill"}
Writers == WriterKinds \X Procs
NoOne == <<"none", 0>>

\* ------------------------------------------------------------------ helpers

\* process.Running
Running(p) == Process[p] /\ ~ProcessState[p]

\* process.Run as it would be if it reported every failed run as an error.
RunPayloadAllErrors(p) ==
    IF rpc[p] = "starting" THEN <<"Starting...", 0>>
    ELSE IF runErr[p] = "nil" THEN <<"Process exited", 0>>
    ELSE IF runErr[p] = "spawn" THEN <<"error", 0>>
    ELSE <<"error", exitCode[p]>>

\* The payload a writer hands to WriteLine at its current position.
RunPayload(p) ==
    IF rpc[p] = "starting" THEN <<"Starting...", 0>>
    ELSE IF runErr[p] = "nil" THEN <<"Process exited", 0>>
    ELSE IF runErr[p] = "spawn" THEN <<"error", 0>>
    ELSE IF exitCode[p] = 1 THEN <<"error", 1>>
    ELSE <<"exit status", exitCode[p]>>

SigPayload(pcOf, text) == IF pcOf = "err" THEN <<"error", 0>> ELSE <<text, 0>>

Payload(w) ==
    CASE w[1] = "run"  -> RunPayload(w[2])
      [] w[1] = "scan" -> <<"out", Head(scanBuf[w[2]])>>
      [] w[1] = "int"  -> SigPayload(ipc[w[2]], "Interrupting...")
      [] w[1] = "kill" -> SigPayload(kpc[w[2]], "Killing...")

\* Whether the writer's goroutine is at a call of WriteLine.
AtWriteLine(w) ==
    CASE w[1] = "run"  -> rpc[w[2]] \in {"starting", "status"}
      [] w[1] = "scan" -> spc[w[2]] = "scan" /\ scanBuf[w[2]] # << >>
      [] w[1] = "int"  -> ipc[w[2]] \in {"write", "err"}
      [] w[1] = "kill" -> kpc[w[2]] \in {"write", "err"}

\* Where a signalling goroutine continues after WriteLine returns.
AfterSigWrite(pcOf) == IF pcOf = "write" THEN "signal" ELSE "done"

\* The errors a read can end with: the end of the stream, the sentinel of a
\* closed io.Pipe, the error of an *os.File that has been closed (os.ErrClosed,
\* "file already closed", in a *PathError), and an input/output error.
EOF == "io.EOF"
ErrClosedPipe == "io.ErrClosedPipe"
ErrClosed == "os.ErrClosed"
EIO == "EIO"
ErrInvalid == "os.ErrInvalid"
ReadErrors == {EOF, ErrClosedPipe, ErrClosed, EIO}

\* scanLines, after its loop: what it returns for the error that ended it.
scanLinesReturn(err) == IF err # EOF /\ err # ErrClosedPipe THEN err ELSE "nil"

\* ------------------------------------------------------------------ strings

\* A string is the sequence of its characters.
Space == " "
Slash == "/"
Star == "*"
NpmPrefix == <<"n", "p", "m", ":">>

\* strings.HasPrefix, strings.HasSuffix, strings.TrimPrefix
HasPrefix(s, pre) == Len(s) >= Len(pre) /\ SubSeq(s, 1, Len(pre)) = pre
HasSuffix(s, suf) ==
    Len(s) >= Len(suf) /\ SubSeq(s, Len(s) - Len(suf) + 1, Len(s)) = suf
TrimPrefix(s, pre) == IF HasPrefix(s, pre) THEN SubSeq(s, Len(pre) + 1, Len(s)) ELSE s

\* The positions of character c in s.
Positions(s, c) == {i \in 1..Len(s) : s[i] = c}

Min(S) == CHOOSE x \in S : \A y \in S : x <= y
Max(S) == CHOOSE x \in S : \A y \in S : x >= y

\* strings.TrimSpace, for strings whose only white space is the blank.
TrimSpace(s) ==
    LET inked == {i \in 1..Len(s) : s[i] # Space}
    IN  IF inked = {} THEN << >> ELSE SubSeq(s, Min(inked), Max(inked))

\* The first result of strings.Cut(s, " "): s up to its first blank.
CutAtSpace(s) ==
    IF Positions(s, Space) = {} THEN s
    ELSE SubSeq(s, 1, Min(Positions(s, Space)) - 1)

\* filepath.Base: the last element of the path, trailing slashes removed;
\* "." for the empty path and "/" for a path of slashes only.
Base(path) ==
    LET solid == {i \in 1..Len(path) : path[i] # Slash}
    IN  IF path = << >> THEN <<".">>
        ELSE IF solid = {} THEN <<Slash>>
        ELSE LET stripped == SubSeq(path, 1, Max(solid))
                 cuts == Positions(stripped, Slash)
             IN  IF cuts = {} THEN stripped
                 ELSE SubSeq(stripped, Max(cuts) + 1, Len(stripped))

\* filterCmdName
filterCmdName(cmd) ==
    LET name == Base(CutAtSpace(TrimSpace(cmd)))
    IN  IF name = <<".">> \/ name = <<Slash>> THEN << >> ELSE name

\* strings.EqualFold, for an alphabet whose only capital is "A".
Lower(c) == IF c = "A" THEN "a" ELSE c
EqualFold(s, t) ==
    Len(s) = Len(t) /\ \A i \in 1..Len(s) : Lower(s[i]) = Lower(t[i])

\* wildcardMatch: parts is strings.Split(pattern, "*").
wildcardMatch(pattern, s) ==
    LET stars == Positions(pattern, Star)
    IN  IF stars = {} THEN EqualFold(pattern, s)
        ELSE IF Cardinality(stars) > 1 THEN FALSE
        ELSE LET at == Min(stars)
                 part0 == SubSeq(pattern, 1, at - 1)
                 part1 == SubSeq(pattern, at + 1, Len(pattern))
             IN  IF part0 = << >> THEN HasSuffix(s, part1)
                 ELSE IF part1 = << >> THEN HasPrefix(s, part0)
                 ELSE HasPrefix(s, part0) /\ HasSuffix(s, part1)

\* ------------------------------------------------------------- construction

\* The scripts of the package.json, when it can be read and parsed: script
\* name and command text.
ScriptNames == {<<"a">>, <<"b">>}
ScriptText(name) == IF name = <<"a">> THEN <<"x">> ELSE <<"y">>

\* A named command.  src is the position in Config.Cmds of the command it came
\* from, and label the name it was given before names were made distinct;
\* the program keeps neither, they are here to say where a process came from.
Command(name, cmd, src) == [name |-> name, cmd |-> cmd, src |-> src, label |-> name]

\* The orders in which a range over a Go map can visit the keys S.
MapOrders(S) ==
    {f \in [1..Cardinality(S) -> S] : \A i, j \in 1..Cardinality(S) : f[i] = f[j] => i = j}

\* An error as it would be if it were dropped on the way.
FailedQuietly(err) == [err |-> "nil", result |-> << >>]

\* What a call ended with.
Failed(err) == [err |-> err, result |-> << >>]
Returned(result) == [err |-> "nil", result |-> result]

\* parseNpmScripts, its loop from the commands at positions rest of cmds on:
\* the set of outcomes it can end with (it ranges over a map).
RECURSIVE NpmScriptsFrom(_, _, _, _)
NpmScriptsFrom(cmds, rest, acc, missingCommands) ==
    IF rest = << >>
      THEN IF missingCommands # << >> THEN {Failed("no npm script named")}
           ELSE {Returned(acc)}
      ELSE
        LET k == Head(rest)
            scriptName == TrimPrefix(cmds[k], NpmPrefix)
            matching == {name \in ScriptNames : wildcardMatch(scriptName, name)}
        IN  IF scriptName \in ScriptNames
              THEN NpmScriptsFrom(cmds, Tail(rest),
                       Append(acc, Command(scriptName, ScriptText(scriptName), k)),
                       missingCommands)
            ELSE IF Positions(scriptName, Star) = {}
              THEN NpmScriptsFrom(cmds, Tail(rest), acc,
                       Append(missingCommands, scriptName))
            ELSE IF matching = {}
              THEN {Failed("no npm scripts matching")}
            ELSE UNION {
                   NpmScriptsFrom(cmds, Tail(rest),
                       acc \o [i \in 1..Cardinality(matching) |->
                                 Command(order[i], ScriptText(order[i]), k)],
                       missingCommands) : order \in MapOrders(matching) }

\* parseNpmScripts(b, cmds), the commands given by their positions in cmds.
parseNpmScripts(manifest, cmds, npmCommands) ==
    IF manifest = "malformed" THEN {Failed("parsing package.json")}
    ELSE NpmScriptsFrom(cmds, npmCommands, << >>, << >>)

\* The positions of cmds, in order.
PositionsOf(cmds) == [i \in 1..Len(cmds) |-> i]

\* parseCommands, first loop: the name a command is given.
CmdName(cmd) == IF filterCmdName(cmd) = << >> THEN <<"c", "m", "d">> ELSE filterCmdName(cmd)

\* fmt.Sprintf("%s.%d", name, n), for n below ten.
Digits == <<"1", "2", "3", "4", "5", "6", "7", "8", "9">>
Suffixed(name, n) == name \o <<".", Digits[n]>>

\* parseCommands, last loops: a name that several commands have is given to
\* each of them with its rank among them appended.
Deduplicated(result) ==
    [idx \in 1..Len(result) |->
        LET idxs == {j \in 1..Len(result) : result[j].name = result[idx].name}
            rank == Cardinality({j \in idxs : j <= idx})
        IN  IF Cardinality(idxs) > 1
              THEN [result[idx] EXCEPT !.name = Suffixed(result[idx].name, rank)]
              ELSE result[idx]]

\* parseCommands: the set of outcomes it can end with.
parseCommands(manifest, cmds) ==
    LET IsNpm(i) == HasPrefix(CmdName(cmds[i]), NpmPrefix)
        IsPlain(i) == ~IsNpm(i)
        plainIdx == SelectSeq(PositionsOf(cmds), IsPlain)
        result == [i \in 1..Len(plainIdx) |->
                      Command(CmdName(cmds[plainIdx[i]]), cmds[plainIdx[i]], plainIdx[i])]
        npmCommands == SelectSeq(PositionsOf(cmds), IsNpm)
    IN  IF npmCommands = << >> THEN {Returned(Deduplicated(result))}
        ELSE IF manifest = "missing" THEN {Failed("reading package.json")}
        ELSE { IF scripts.err # "nil" THEN scripts
               ELSE Returned(Deduplicated(result \o scripts.result)) :
                   scripts \in parseNpmScripts(manifest, cmds, npmCommands) }

\* Connect as it would be if it took the length of every name it is given.
ConnectLatest(m, proc) == Len(proc.name)

\* multiOutput.Connect: the maximum name length m after proc is connected.
Connect(m, proc) == IF Len(proc.name) > m THEN Len(proc.name) ELSE m

\* New's loop of newProcess, each with its p.output.Connect(p): the maximum
\* name length after the first n of them.
RECURSIVE ConnectedUpTo(_, _)
ConnectedUpTo(ps, n) ==
    IF n = 0 THEN 0 ELSE Connect(ConnectedUpTo(ps, n - 1), ps[n])

ConnectAll(ps) == ConnectedUpTo(ps, Len(ps))

\* WriteLine's padding loop `for i := len(proc.Name); i <= m.maxNameLength;
\* i++`: the number of blanks written after the name.
PadBlanks(name) ==
    IF Len(name) <= maxNameLength THEN maxNameLength - Len(name) + 1 ELSE 0

\* The width of the label WriteLine writes for process i of pm.procs.
LabelWidth(i) == Len(procs[i].name) + PadBlanks(procs[i].name)

\* ---------------------------------------------------------------- initially

\* Nothing of Run has happened.  (What the operating system has in store for
\* openPipe is said by each specification.)
InitRun ==
    /\ cpc = "idle"
    /\ timer = "unset"
    /\ done = 0
    /\ wg = 0
    /\ delivered = 0
    /\ rpc = [p \in Procs |-> "idle"]
    /\ runErr = [p \in Procs |-> "none"]
    /\ Process = [p \in Procs |-> FALSE]
    /\ ProcessState = [p \in Procs |-> FALSE]
    /\ child = [p \in Procs |-> "none"]
    /\ exitCode = [p \in Procs |-> 0]
    /\ produced = [p \in Procs |-> 0]
    /\ sigSent = [p \in Procs |-> << >>]
    /\ ipc = [p \in Procs |-> "idle"]
    /\ kpc = [p \in Procs |-> "idle"]
    /\ intCalls = [p \in Procs |-> 0]
    /\ killCalls = [p \in Procs |-> 0]
    /\ ptyBuf = [p \in Procs |-> << >>]
    /\ spc = [p \in Procs |-> "idle"]
    /\ scanBuf = [p \in Procs |-> << >>]
    /\ mutex = NoOne
    /\ wl = [w \in Writers |-> "idle"]
    /\ tail = << >>
    /\ sink = [p \in Procs |-> << >>]
    /\ scanErr = [p \in Procs |-> "none"]

\* None of the functions is called by itself.
NoMatch == glob = << >> /\ input = << >> /\ matched = << >>
NoScripts == npmResult = << >>
NoLines ==
    /\ stream = << >>
    /\ unread = << >>
    /\ ending = EOF
    /\ reader = << >>
    /\ readerErr = "nil"
    /\ buf = << >>
    /\ called = << >>
    /\ ret = "none"

NoCloses == closeErrs = [p \in Procs |-> << >>]

\* One command `a` per process.
DefaultCmds == [p \in Procs |-> <<"a">>]

\* The manager New makes of the default commands.
DefaultManager ==
    /\ mpc = "start"
    /\ cfgCmds = DefaultCmds
    /\ pkg = "ok"
    /\ procs \in {made.result : made \in parseCommands("ok", DefaultCmds)}
    /\ maxNameLength = ConnectAll(procs)
    /\ newErr = "nil"

\* The state New leaves: every process constructed and connected to the output,
\* nothing started.  The commands fork no processes of their own.
InitProgram ==
    /\ InitRun
    /\ DefaultManager
    /\ NoMatch /\ NoScripts /\ NoLines /\ NoCloses
    /\ sub = [p \in Procs |-> "never"]
    /\ pty = [p \in Procs |-> "unopened"]

\* One way the operator and the commands can behave.
Scenario(s, i, l, c) ==
    /\ silent = s
    /\ interrupts = i
    /\ lines = l
    /\ codes = c

\* A manager that has been made and is not run.
Unstarted ==
    /\ InitRun
    /\ DefaultManager
    /\ sub = [p \in Procs |-> "never"]
    /\ pty = [p \in Procs |-> "unopened"]
    /\ Scenario(TRUE, 0, 0, {0})

\* Silent commands, in one of three ways: they write nothing and end with
\* status 0, under every timing of up to MaxSignals interrupt requests; they
\* write nothing and end with any status, uninterrupted; they write and end
\* with status 0, uninterrupted.
Init ==
    /\ InitProgram
    /\ \/ Scenario(TRUE, MaxSignals, 0, {0})
       \/ Scenario(TRUE, 0, 0, ExitCodes)
       \/ Scenario(TRUE, 0, MaxLines, {0})

\* ----------------------------------------------------------------------- New

\* The commands New is tried with: plain ones that derive the labels a, a.1
\* and (from a path with an argument) a again, and npm: aliases of a script
\* there is, of every script, and of a script there is not.
CmdSamples ==
    { <<"a">>,
      <<"a", ".", "1">>,
      <<" ", ".", "/", "a", " ", "b">>,
      <<"n", "p", "m", ":", "a">>,
      <<"n", "p", "m", ":", "*">>,
      <<"n", "p", "m", ":", "z">> }

\* The longest list of commands New is tried with.
MaxCmds == 3

CmdLists == UNION {[1..n -> CmdSamples] : n \in 1..MaxCmds}

\* New: the commands are parsed and named; on an error nothing is made; else a
\* process is made of each and connected to the output.  (Run is followed
\* further for managers of NumProcs processes only.)
New ==
    /\ mpc = "new"
    /\ \E made \in parseCommands(pkg, cfgCmds) :
         IF made.err # "nil"
           THEN /\ newErr' = made.err
                /\ procs' = << >>
                /\ maxNameLength' = 0
                /\ mpc' = "failed"
           ELSE /\ newErr' = "nil"
                /\ procs' = made.result
                /\ maxNameLength' = ConnectAll(made.result)
                /\ mpc' = IF Len(made.result) = NumProcs THEN "start" ELSE "made"
    /\ UNCHANGED <<cfgCmds, pkg, silent, interrupts, lines, codes, cpc, timer,
                   done, wg, delivered, rpc, runErr, Process, ProcessState,
                   child, sub, exitCode, produced, sigSent, ipc, kpc, intCalls,
                   killCalls, pty, ptyBuf, spc, scanBuf, mutex, wl, tail, sink,
                   scanErr, apartVars>>

\* ------------------------------------------ ProcessManager.Run (the caller)

\* The per-process variables the manager's own steps leave alone.
procVars == <<runErr, Process, ProcessState, child, sub, exitCode, produced,
              sigSent>>
pipeVars == <<pty, ptyBuf, spc, scanBuf, scanErr>>
outVars == <<mutex, wl, tail, sink>>
sigThreadVars == <<ipc, kpc, intCalls, killCalls>>

\* Run as it would be if runProcess did not add the process to the wait group.
RunStartNoAdd ==
    /\ mpc = "start"
    /\ mpc' = "spawn"
    /\ wg' = 0
    /\ rpc' = [p \in Procs |-> "pipe"]
    /\ UNCHANGED <<envVars, cpc, timer, done, delivered, procVars,
                   sigThreadVars, pipeVars, outVars>>

\* Run, up to the end of its loop: the channels are made, the signals are
\* registered for, and runProcess has added every process to the wait group
\* and started its goroutine.
RunStart ==
    /\ mpc = "start"
    /\ mpc' = "spawn"
    /\ wg' = NumProcs
    /\ rpc' = [p \in Procs |-> "pipe"]
    /\ UNCHANGED <<envVars, cpc, timer, done, delivered, procVars, sigThreadVars,
                   pipeVars, outVars>>

\* `go pm.waitForExit()`
RunGoWaitForExit ==
    /\ mpc = "spawn"
    /\ mpc' = "wait"
    /\ cpc' = "select1"
    /\ UNCHANGED <<envVars, timer, done, wg, delivered, rpc, procVars,
                   sigThreadVars, pipeVars, outVars>>

\* `pm.procWg.Wait()` returns, and Run with it.
RunReturn ==
    /\ mpc = "wait"
    /\ wg = 0
    /\ mpc' = "returned"
    /\ UNCHANGED <<envVars, cpc, timer, done, wg, delivered, rpc, procVars,
                   sigThreadVars, pipeVars, outVars>>

\* --------------------------------------------------- the external interrupt

\* Some process has exited (its child has died, or it could not be spawned).
AnyExited == \E p \in Procs : child[p] = "dead" \/ runErr[p] = "spawn"

\* The delivery of a signal as it would be if waitForTimeoutOrInterrupt waited
\* for the timer alone.
DeliverSignalNoEscalation ==
    /\ mpc # "start"
    /\ delivered < interrupts
    /\ delivered' = delivered + 1
    /\ cpc' = IF cpc = "parked1" THEN "interrupt" ELSE cpc
    /\ UNCHANGED <<envVars, mpc, timer, done, wg, rpc, procVars, sigThreadVars,
                   pipeVars, outVars>>

\* The operator sends SIGINT or SIGTERM.  pm.interrupted is unbuffered and
\* os/signal never blocks sending to it: the value is handed over if the
\* coordinator is blocked in one of its two selects, and dropped otherwise.
DeliverSignal ==
    /\ mpc # "start"
    /\ delivered < interrupts
    /\ delivered' = delivered + 1
    /\ cpc' = CASE cpc = "parked1" -> "interrupt"
                [] cpc = "parked2" -> "kill"
                [] OTHER -> cpc
    /\ UNCHANGED <<envVars, mpc, timer, done, wg, rpc, procVars, sigThreadVars,
                   pipeVars, outVars>>

\* ------------------------------------------- waitForExit (the coordinator)

\* waitForDoneOrInterrupt: the select finds a value in pm.done, or blocks.
CoordSelect1 ==
    /\ cpc = "select1"
    /\ IF done > 0
         THEN done' = done - 1 /\ cpc' = "interrupt"
         ELSE done' = done /\ cpc' = "parked1"
    /\ UNCHANGED <<envVars, mpc, timer, wg, delivered, rpc, procVars,
                   sigThreadVars, pipeVars, outVars>>

\* `for _, proc := range pm.procs { go proc.Interrupt() }`, then
\* waitForTimeoutOrInterrupt: time.After(pm.timeout) starts the timer and the
\* select blocks.  (A timer that has fired before the select looks at it is the
\* timer firing right after the select blocked.)
CoordInterruptAll ==
    /\ cpc = "interrupt"
    /\ cpc' = "parked2"
    /\ timer' = "armed"
    /\ ipc' = [p \in Procs |-> "check"]
    /\ intCalls' = [p \in Procs |-> intCalls[p] + 1]
    /\ UNCHANGED <<envVars, mpc, done, wg, delivered, rpc, procVars, kpc,
                   killCalls, pipeVars, outVars>>

\* The timer as it would be if the timeout were counted from the start of
\* waitForExit.
TimerFireFromStart ==
    /\ cpc \in {"parked1", "parked2"}
    /\ timer' = "fired"
    /\ cpc' = "kill"
    /\ UNCHANGED <<envVars, mpc, done, wg, delivered, rpc, procVars,
                   sigThreadVars, pipeVars, outVars>>

\* The grace period elapses.  (Once the coordinator has left the select the
\* timer's channel is never read again, so its firing is left out.)
TimerFire ==
    /\ timer = "armed"
    /\ cpc = "parked2"
    /\ timer' = "fired"
    /\ cpc' = "kill"
    /\ UNCHANGED <<envVars, mpc, done, wg, delivered, rpc, procVars,
                   sigThreadVars, pipeVars, outVars>>

\* waitForExit as it would be if it were a loop that waits for the next event.
AfterKillAllAgain == "select1"

\* Where waitForExit goes after its second loop: it returns.
AfterKillAll == "done"

\* `for _, proc := range pm.procs { go proc.Kill() }`
CoordKillAll ==
    /\ cpc = "kill"
    /\ cpc' = AfterKillAll
    /\ kpc' = [p \in Procs |-> "check"]
    /\ killCalls' = [p \in Procs |-> killCalls[p] + 1]
    /\ UNCHANGED <<envVars, mpc, timer, done, wg, delivered, rpc, procVars, ipc,
                   intCalls, pipeVars, outVars>>

\* ------------------------------------- process.Run (the runProcess goroutine)

mgrVars == <<envVars, mpc, timer, delivered>>

\* PipeOutput: openPipe allocates the pseudo-terminal and binds it to the
\* command's standard streams, and the scanner goroutine is started.  Then
\* "Starting..." is written unless the process is silent.
PipeOutput(p) ==
    /\ rpc[p] = "pipe"
    /\ pty[p] = "unopened"
    /\ pty' = [pty EXCEPT ![p] = "open"]
    /\ spc' = [spc EXCEPT ![p] = "scan"]
    /\ rpc' = [rpc EXCEPT ![p] = IF silent THEN "start" ELSE "starting"]
    /\ UNCHANGED <<mgrVars, cpc, done, wg, procVars, sigThreadVars, ptyBuf,
                   scanBuf, scanErr, outVars>>

\* PipeOutput when termios.Pty() fails: openPipe's fatalOnErr prints the error
\* and calls os.Exit(1).  The program and all its goroutines are gone; the
\* children it has started are not.
PipeOutputFatal(p) ==
    /\ rpc[p] = "pipe"
    /\ pty[p] = "unavailable"
    /\ mpc' = "exited"
    /\ cpc' = "dead"
    /\ rpc' = [q \in Procs |-> "dead"]
    /\ ipc' = [q \in Procs |-> "dead"]
    /\ kpc' = [q \in Procs |-> "dead"]
    /\ spc' = [q \in Procs |-> "dead"]
    /\ wl' = [w \in Writers |-> "idle"]
    /\ mutex' = NoOne
    /\ UNCHANGED <<envVars, timer, delivered, done, wg, procVars, intCalls,
                   killCalls, pty, ptyBuf, scanBuf, scanErr, tail, sink>>

\* p.Cmd.Run(), first half, as it would be if process.Run returned on a spawn
\* error without reporting it.
CmdStartUnreported(p) ==
    /\ rpc[p] = "start"
    /\ \/ /\ Process' = [Process EXCEPT ![p] = TRUE]
          /\ child' = [child EXCEPT ![p] = "alive"]
          /\ rpc' = [rpc EXCEPT ![p] = "wait"]
          /\ UNCHANGED runErr
       \/ /\ runErr' = [runErr EXCEPT ![p] = "spawn"]
          /\ rpc' = [rpc EXCEPT ![p] = "close"]
          /\ UNCHANGED <<Process, child>>
    /\ UNCHANGED <<mgrVars, sub, cpc, done, wg, ProcessState, exitCode, produced,
                   sigSent, sigThreadVars, pipeVars, outVars>>

\* p.Cmd.Run(), first half: Start spawns the child and sets p.Process, or fails
\* and leaves it nil.
CmdStart(p) ==
    /\ rpc[p] = "start"
    /\ \/ /\ Process' = [Process EXCEPT ![p] = TRUE]
          /\ child' = [child EXCEPT ![p] = "alive"]
          /\ rpc' = [rpc EXCEPT ![p] = "wait"]
          /\ UNCHANGED runErr
       \/ /\ runErr' = [runErr EXCEPT ![p] = "spawn"]
          /\ rpc' = [rpc EXCEPT ![p] = "status"]
          /\ UNCHANGED <<Process, child>>
    /\ UNCHANGED <<mgrVars, sub, cpc, done, wg, ProcessState, exitCode, produced,
                   sigSent, sigThreadVars, pipeVars, outVars>>

\* p.Cmd.Run(), second half: Wait returns once the child has died, reaps it and
\* sets p.ProcessState.  A zero status is reported only when not silent.
CmdWait(p) ==
    /\ rpc[p] = "wait"
    /\ child[p] = "dead"
    /\ ProcessState' = [ProcessState EXCEPT ![p] = TRUE]
    /\ runErr' = [runErr EXCEPT ![p] = IF exitCode[p] = 0 THEN "nil" ELSE "exit"]
    /\ rpc' = [rpc EXCEPT ![p] =
                 IF exitCode[p] = 0 /\ silent THEN "close" ELSE "status"]
    /\ UNCHANGED <<mgrVars, sub, cpc, done, wg, Process, child, exitCode, produced,
                   sigSent, sigThreadVars, pipeVars, outVars>>

\* The scanner of p is blocked in a read of the pseudo-terminal.
ScannerBlocked(p) == spc[p] = "scan" /\ scanBuf[p] = << >> /\ ptyBuf[p] = << >>

\* process.Run as it would be without its deferred ClosePipe: it returns and
\* leaves the pseudo-terminal as it is.
ClosePipeSkipped(p) ==
    /\ rpc[p] = "close"
    /\ rpc' = [rpc EXCEPT ![p] = "send"]
    /\ UNCHANGED <<mgrVars, cpc, done, wg, procVars, sigThreadVars, pipeVars,
                   outVars>>

\* The deferred ClosePipe: both ends are closed; what the scanner had not read
\* from the pseudo-terminal can no longer be read.  Closing fails the read of
\* a scanner that is blocked in it, and scanLines returns what it returns for
\* the error of a closed file; a scanner that is busy finds the
\* pseudo-terminal closed at its next read.
ClosePipe(p) ==
    /\ rpc[p] = "close"
    /\ pty' = [pty EXCEPT ![p] = "closed"]
    /\ ptyBuf' = [ptyBuf EXCEPT ![p] = << >>]
    /\ spc' = [spc EXCEPT ![p] = IF ScannerBlocked(p) THEN "done" ELSE @]
    /\ scanErr' = [scanErr EXCEPT ![p] =
                     IF ScannerBlocked(p) THEN scanLinesReturn(ErrClosed) ELSE @]
    /\ rpc' = [rpc EXCEPT ![p] = "send"]
    /\ UNCHANGED <<mgrVars, cpc, done, wg, procVars, sigThreadVars, scanBuf,
                   outVars>>

\* `pm.done <- true` as it would be if pm.done were sent to the way signals
\* are sent to pm.interrupted: without buffer and without blocking.
SendDoneUnbuffered(p) ==
    /\ rpc[p] = "send"
    /\ cpc' = IF cpc = "parked1" THEN "interrupt" ELSE cpc
    /\ rpc' = [rpc EXCEPT ![p] = "wgdone"]
    /\ UNCHANGED <<mgrVars, done, wg, procVars, sigThreadVars, pipeVars,
                   outVars>>

\* `pm.done <- true` as it would be if pm.done had room for one value.
SendDoneCapacityOne(p) ==
    /\ rpc[p] = "send"
    /\ done < 1
    /\ IF cpc = "parked1"
         THEN cpc' = "interrupt" /\ done' = done
         ELSE cpc' = cpc /\ done' = done + 1
    /\ rpc' = [rpc EXCEPT ![p] = "wgdone"]
    /\ UNCHANGED <<mgrVars, wg, procVars, sigThreadVars, pipeVars, outVars>>

\* runProcess's `pm.done <- true`: handed to the coordinator if it is blocked in
\* waitForDoneOrInterrupt, buffered otherwise (it blocks on a full channel).
SendDone(p) ==
    /\ rpc[p] = "send"
    /\ done < NumProcs
    /\ IF cpc = "parked1"
         THEN cpc' = "interrupt" /\ done' = done
         ELSE cpc' = cpc /\ done' = done + 1
    /\ rpc' = [rpc EXCEPT ![p] = "wgdone"]
    /\ UNCHANGED <<mgrVars, wg, procVars, sigThreadVars, pipeVars, outVars>>

\* runProcess's `pm.procWg.Done()`
WgDone(p) ==
    /\ rpc[p] = "wgdone"
    /\ wg' = wg - 1
    /\ rpc' = [rpc EXCEPT ![p] = "returned"]
    /\ UNCHANGED <<mgrVars, cpc, done, procVars, sigThreadVars, pipeVars,
                   outVars>>

\* ---------------------------------------------------------------- the child

\* The command writes one more complete line to its terminal.
ChildWrite(p) ==
    /\ child[p] = "alive"
    /\ produced[p] < lines
    /\ produced' = [produced EXCEPT ![p] = @ + 1]
    /\ ptyBuf' = [ptyBuf EXCEPT ![p] = Append(@, produced[p] + 1)]
    /\ UNCHANGED <<mgrVars, sub, cpc, done, wg, rpc, runErr, Process, ProcessState,
                   child, exitCode, sigSent, sigThreadVars, pty, spc, scanBuf,
                   scanErr, outVars>>

\* The command ends: on its own with any status, or by a signal it was sent.
ChildExit(p) ==
    /\ child[p] = "alive"
    /\ \E code \in codes \cup
                   (IF sigSent[p] # << >> THEN {SignalledCode} ELSE {}) :
         exitCode' = [exitCode EXCEPT ![p] = code]
    /\ child' = [child EXCEPT ![p] = "dead"]
    /\ UNCHANGED <<mgrVars, sub, cpc, done, wg, rpc, runErr, Process, ProcessState,
                   produced, sigSent, sigThreadVars, pipeVars, outVars>>

\* The command forks a process that stays in its process group (openPipe's
\* Setsid makes the command the leader of a group of its own).
ChildFork(p) ==
    /\ child[p] = "alive"
    /\ sub[p] = "none"
    /\ \A i \in 1..Len(sigSent[p]) : sigSent[p][i] # "KILL"
    /\ sub' = [sub EXCEPT ![p] = "alive"]
    /\ UNCHANGED <<mgrVars, cpc, done, wg, rpc, runErr, Process, ProcessState,
                   child, exitCode, produced, sigSent, sigThreadVars, pipeVars,
                   outVars>>

\* The forked process ends: on its own, or by a signal its group was sent.
SubExit(p) ==
    /\ sub[p] = "alive"
    /\ sub' = [sub EXCEPT ![p] = "dead"]
    /\ UNCHANGED <<mgrVars, cpc, done, wg, rpc, runErr, Process, ProcessState,
                   child, exitCode, produced, sigSent, sigThreadVars, pipeVars,
                   outVars>>

\* ------------------------------------------- process.Interrupt, process.Kill

\* The process group of p can still be signalled: the child was spawned and has
\* not been reaped by Wait, or a process it forked is alive.
GroupExists(p) == (child[p] # "none" /\ ~ProcessState[p]) \/ sub[p] = "alive"

\* `if p.Running()`: where the goroutine goes from the check.
AfterRunningCheck(p) ==
    IF Running(p) THEN (IF silent THEN "signal" ELSE "write") ELSE "done"

\* Interrupt(): the check of p.Running().
InterruptCheck(p) ==
    /\ ipc[p] = "check"
    /\ ipc' = [ipc EXCEPT ![p] = AfterRunningCheck(p)]
    /\ UNCHANGED <<mgrVars, cpc, done, wg, rpc, procVars, kpc, intCalls,
                   killCalls, pipeVars, outVars>>

\* Interrupt(): p.signal(syscall.SIGINT), an error line if the group is gone.
InterruptSignal(p) ==
    /\ ipc[p] = "signal"
    /\ IF GroupExists(p)
         THEN /\ sigSent' = [sigSent EXCEPT ![p] = Append(@, "INT")]
              /\ ipc' = [ipc EXCEPT ![p] = "done"]
         ELSE /\ sigSent' = sigSent
              /\ ipc' = [ipc EXCEPT ![p] = "err"]
    /\ UNCHANGED <<mgrVars, sub, cpc, done, wg, rpc, runErr, Process, ProcessState,
                   child, exitCode, produced, kpc, intCalls, killCalls,
                   pipeVars, outVars>>

\* Kill(): the check of p.Running().
KillCheck(p) ==
    /\ kpc[p] = "check"
    /\ kpc' = [kpc EXCEPT ![p] = AfterRunningCheck(p)]
    /\ UNCHANGED <<mgrVars, cpc, done, wg, rpc, procVars, ipc, intCalls,
                   killCalls, pipeVars, outVars>>

\* Kill(): p.signal(syscall.SIGKILL), an error line if the group is gone.
KillSignal(p) ==
    /\ kpc[p] = "signal"
    /\ IF GroupExists(p)
         THEN /\ sigSent' = [sigSent EXCEPT ![p] = Append(@, "KILL")]
              /\ kpc' = [kpc EXCEPT ![p] = "done"]
         ELSE /\ sigSent' = sigSent
              /\ kpc' = [kpc EXCEPT ![p] = "err"]
    /\ UNCHANGED <<mgrVars, sub, cpc, done, wg, rpc, runErr, Process, ProcessState,
                   child, exitCode, produced, ipc, intCalls, killCalls,
                   pipeVars, outVars>>

\* ------------------------------------------- scanLines (the reader goroutine)

\* scanLines as it would be if it handed the lines of one read to its callback
\* last line first.
ScanReadNewestFirst(p) ==
    /\ spc[p] = "scan"
    /\ scanBuf[p] = << >>
    /\ \/ /\ pty[p] = "open"
          /\ ptyBuf[p] # << >>
          /\ scanBuf' = [scanBuf EXCEPT ![p] =
                           [i \in 1..Len(ptyBuf[p]) |->
                               ptyBuf[p][Len(ptyBuf[p]) + 1 - i]]]
          /\ ptyBuf' = [ptyBuf EXCEPT ![p] = << >>]
          /\ UNCHANGED <<spc, scanErr>>
       \/ /\ pty[p] = "closed"
          /\ spc' = [spc EXCEPT ![p] = "done"]
          /\ scanErr' = [scanErr EXCEPT ![p] = scanLinesReturn(ErrClosed)]
          /\ UNCHANGED <<scanBuf, ptyBuf>>
    /\ UNCHANGED <<mgrVars, cpc, done, wg, rpc, procVars, sigThreadVars, pty,
                   outVars>>

\* reader.ReadLine() has to read from the pseudo-terminal: it takes what is
\* there, blocks while nothing is, and fails once ClosePipe has closed it.
\* While it holds a complete line, the scanner is in its callback (WriteLine).
ScanRead(p) ==
    /\ spc[p] = "scan"
    /\ scanBuf[p] = << >>
    /\ \/ /\ pty[p] = "open"
          /\ ptyBuf[p] # << >>
          /\ scanBuf' = [scanBuf EXCEPT ![p] = ptyBuf[p]]
          /\ ptyBuf' = [ptyBuf EXCEPT ![p] = << >>]
          /\ UNCHANGED <<spc, scanErr>>
       \/ /\ pty[p] = "closed"
          /\ spc' = [spc EXCEPT ![p] = "done"]
          /\ scanErr' = [scanErr EXCEPT ![p] = scanLinesReturn(ErrClosed)]
          /\ UNCHANGED <<scanBuf, ptyBuf>>
    /\ UNCHANGED <<mgrVars, cpc, done, wg, rpc, procVars, sigThreadVars, pty,
                   outVars>>

\* reader.ReadLine() fails with an input/output error of the pseudo-terminal:
\* scanLines returns the error to the goroutine PipeOutput started, whose
\* function ends there.
ScanReadFails(p) ==
    /\ spc[p] = "scan"
    /\ scanBuf[p] = << >>
    /\ pty[p] = "open"
    /\ spc' = [spc EXCEPT ![p] = "done"]
    /\ scanErr' = [scanErr EXCEPT ![p] = scanLinesReturn(EIO)]
    /\ UNCHANGED <<mgrVars, cpc, done, wg, rpc, procVars, sigThreadVars, pty,
                   ptyBuf, scanBuf, outVars>>

\* --------------------------------------------------- multiOutput.WriteLine

\* WriteLine as it would be without its lock.
MutexFreeAlways == TRUE

\* `m.mutex.Lock()` can return.
MutexFree == mutex = NoOne

\* The record is composed in a buffer of the caller; then m.mutex.Lock(), and
\* buf.WriteTo(os.Stdout) begins: the operating system takes the first part
\* of the record, the coloured and padded label.
WriteLineBegin(w) ==
    /\ AtWriteLine(w)
    /\ wl[w] = "idle"
    /\ MutexFree
    /\ mutex' = w
    /\ wl' = [wl EXCEPT ![w] = "writing"]
    /\ tail' = Append(tail, <<w[2], "label", 0>>)
    /\ UNCHANGED <<mgrVars, cpc, done, wg, rpc, procVars, sigThreadVars,
                   pipeVars, sink>>

\* The end of WriteLine as it would be without its deferred Unlock.
WriteLineEndLocked(w) ==
    /\ wl[w] = "writing"
    /\ LET q == w[2]
           pl == Payload(w)
       IN  /\ sink' = [sink EXCEPT ![q] =
                         Append(@, Append(tail, <<q, pl[1], pl[2]>>))]
           /\ tail' = << >>
           /\ wl' = [wl EXCEPT ![w] = "idle"]
           /\ mutex' = mutex
           /\ rpc' = IF w[1] = "run"
                       THEN [rpc EXCEPT ![q] =
                               IF @ = "starting" THEN "start" ELSE "close"]
                       ELSE rpc
           /\ scanBuf' = IF w[1] = "scan"
                           THEN [scanBuf EXCEPT ![q] = Tail(@)] ELSE scanBuf
           /\ ipc' = IF w[1] = "int"
                       THEN [ipc EXCEPT ![q] = AfterSigWrite(@)] ELSE ipc
           /\ kpc' = IF w[1] = "kill"
                       THEN [kpc EXCEPT ![q] = AfterSigWrite(@)] ELSE kpc
    /\ UNCHANGED <<mgrVars, cpc, done, wg, procVars, intCalls, killCalls, pty,
                   ptyBuf, spc, scanErr>>

\* buf.WriteTo(os.Stdout) ends: the rest of the record, the payload and the
\* newline; then the deferred Unlock, and WriteLine returns to its caller.
WriteLineEnd(w) ==
    /\ wl[w] = "writing"
    /\ LET q == w[2]
           pl == Payload(w)
       IN  /\ sink' = [sink EXCEPT ![q] =
                         Append(@, Append(tail, <<q, pl[1], pl[2]>>))]
           /\ tail' = << >>
           /\ wl' = [wl EXCEPT ![w] = "idle"]
           /\ mutex' = IF mutex = w THEN NoOne ELSE mutex
           /\ rpc' = IF w[1] = "run"
                       THEN [rpc EXCEPT ![q] =
                               IF @ = "starting" THEN "start" ELSE "close"]
                       ELSE rpc
           /\ scanBuf' = IF w[1] = "scan"
                           THEN [scanBuf EXCEPT ![q] = Tail(@)] ELSE scanBuf
           /\ ipc' = IF w[1] = "int"
                       THEN [ipc EXCEPT ![q] = AfterSigWrite(@)] ELSE ipc
           /\ kpc' = IF w[1] = "kill"
                       THEN [kpc EXCEPT ![q] = AfterSigWrite(@)] ELSE kpc
    /\ UNCHANGED <<mgrVars, cpc, done, wg, procVars, intCalls, killCalls, pty,
                   ptyBuf, spc, scanErr>>

\* ------------------------------------------------------ the specifications

\* The steps of the program's own goroutines, but for the scanner's reads and
\* for a failure to allocate a pseudo-terminal.
CoreNext ==
    \/ RunStart
    \/ RunGoWaitForExit
    \/ RunReturn
    \/ CoordSelect1
    \/ CoordInterruptAll
    \/ TimerFire
    \/ CoordKillAll
    \/ \E p \in Procs : PipeOutput(p)
    \/ \E p \in Procs : CmdStart(p)
    \/ \E p \in Procs : CmdWait(p)
    \/ \E p \in Procs : ClosePipe(p)
    \/ \E p \in Procs : SendDone(p)
    \/ \E p \in Procs : WgDone(p)
    \/ \E p \in Procs : InterruptCheck(p)
    \/ \E p \in Procs : InterruptSignal(p)
    \/ \E p \in Procs : KillCheck(p)
    \/ \E p \in Procs : KillSignal(p)
    \/ \E w \in Writers : WriteLineBegin(w)
    \/ \E w \in Writers : WriteLineEnd(w)

\* The program, the operator and the commands.
Next ==
    \/ CoreNext
    \/ DeliverSignal
    \/ \E p \in Procs : ChildExit(p)
    \/ \E p \in Procs : ChildWrite(p)
    \/ \E p \in Procs : ScanRead(p)

Spec == Init /\ [][Next]_vars

\* The steps there are when the commands write nothing.
QuietNext ==
    \/ CoreNext
    \/ DeliverSignal
    \/ \E p \in Procs : ChildExit(p)

\* The steps there are when the operator sends nothing.
OutNext ==
    \/ CoreNext
    \/ \E p \in Procs : ChildExit(p)
    \/ \E p \in Procs : ChildWrite(p)
    \/ \E p \in Procs : ScanRead(p)

\* A command that has been sent SIGKILL ends.
KilledExit(p) ==
    /\ \E i \in 1..Len(sigSent[p]) : sigSent[p][i] = "KILL"
    /\ ChildExit(p)

\* Fair scheduling: a goroutine that can take a step does, time passes, and a
\* killed command dies.  Nothing makes a command end on its own, nor the
\* operator send a signal.
Fairness ==
    /\ WF_vars(CoreNext)
    /\ \A p \in Procs : WF_vars(KilledExit(p))

\* Silent commands that write nothing: interrupted at any time and ending with
\* status 0, or uninterrupted and ending with any status.
InitFair ==
    /\ InitProgram
    /\ \/ Scenario(TRUE, MaxSignals, 0, {0})
       \/ Scenario(TRUE, 0, 0, ExitCodes)

FairSpec == InitFair /\ [][QuietNext]_vars /\ Fairness

\* Commands that report their progress and write, uninterrupted by the operator.
InitOut ==
    /\ InitProgram
    /\ Scenario(FALSE, 0, MaxLines, {0})

OutSpec == InitOut /\ [][OutNext]_vars

\* New called with every list of commands and every state of the package.json,
\* and Run after it with silent commands that write nothing and end with
\* status 0, uninterrupted.
InitNew ==
    /\ InitRun
    /\ NoMatch /\ NoScripts /\ NoLines /\ NoCloses
    /\ mpc = "new"
    /\ cfgCmds \in CmdLists
    /\ pkg \in {"missing", "malformed", "ok"}
    /\ procs = << >>
    /\ maxNameLength = 0
    /\ newErr = "nil"
    /\ sub = [p \in Procs |-> "never"]
    /\ pty = [p \in Procs |-> "unopened"]
    /\ Scenario(TRUE, 0, 0, {0})

NewNext ==
    \/ New
    \/ CoreNext
    \/ \E p \in Procs : ChildExit(p)

NewSpec == InitNew /\ [][NewNext]_vars

\* Silent commands that write nothing, can fork a process each, and end with
\* status 0, uninterrupted by the operator.
InitSub ==
    /\ InitRun
    /\ NoMatch /\ NoScripts /\ NoLines /\ NoCloses
    /\ DefaultManager
    /\ sub = [p \in Procs |-> "none"]
    /\ pty = [p \in Procs |-> "unopened"]
    /\ Scenario(TRUE, 0, 0, {0})

SubNext ==
    \/ CoreNext
    \/ \E p \in Procs : ChildExit(p)
    \/ \E p \in Procs : ChildFork(p)
    \/ \E p \in Procs : SubExit(p)

SubSpec == InitSub /\ [][SubNext]_vars

\* Silent commands that write nothing and end with status 0, uninterrupted,
\* where for any of them the allocation of a pseudo-terminal can fail.
InitPty ==
    /\ InitRun
    /\ NoMatch /\ NoScripts /\ NoLines /\ NoCloses
    /\ DefaultManager
    /\ sub = [p \in Procs |-> "never"]
    /\ pty \in [Procs -> {"unopened", "unavailable"}]
    /\ Scenario(TRUE, 0, 0, {0})

PtyNext ==
    \/ CoreNext
    \/ \E p \in Procs : PipeOutputFatal(p)
    \/ \E p \in Procs : ChildExit(p)

PtySpec == InitPty /\ [][PtyNext]_vars

\* Silent commands that write several lines, uninterrupted by the operator.
InitOrder ==
    /\ InitProgram
    /\ Scenario(TRUE, 0, MaxOrderLines, {0})

OrderSpec == InitOrder /\ [][OutNext]_vars

\* Silent commands that write and end with status 0, uninterrupted, where a
\* read of a pseudo-terminal can fail.
InitReadErr ==
    /\ InitProgram
    /\ Scenario(TRUE, 0, MaxLines, {0})

ReadErrNext ==
    \/ OutNext
    \/ \E p \in Procs : ScanReadFails(p)

ReadErrSpec == InitReadErr /\ [][ReadErrNext]_vars

\* -------------------------------------------------- wildcardMatch by itself

\* Everything of a manager and its run.
runVars == <<newVars, silent, interrupts, lines, codes, mpc, cpc, timer, done,
             wg, delivered, rpc, procVars, sigThreadVars, pipeVars, outVars>>

\* The characters of the patterns and strings wildcardMatch is called with,
\* and their greatest length.
MatchChars == {"a", "b", "A", Star}
MaxMatchLen == 3

\* The strings of at most n of the characters chars.
Strings(chars, n) == UNION {[1..k -> chars] : k \in 0..n}

InitMatch ==
    /\ Unstarted
    /\ NoScripts /\ NoLines /\ NoCloses
    /\ glob \in Strings(MatchChars, MaxMatchLen)
    /\ input \in Strings(MatchChars, MaxMatchLen)
    /\ matched = << >>

\* wildcardMatch(glob, input) is called and returns.
WildcardMatch ==
    /\ matched = << >>
    /\ matched' = <<wildcardMatch(glob, input)>>
    /\ UNCHANGED <<runVars, closeErrs, glob, input, npmResult, linesVars>>

MatchSpec == InitMatch /\ [][WildcardMatch]_vars

\* ------------------------------------------------ parseNpmScripts by itself

\* The commands parseNpmScripts is tried with: aliases of each script, of a
\* script there is not, and patterns with one star and with two.
NpmSamples ==
    { NpmPrefix \o <<"a">>,
      NpmPrefix \o <<"b">>,
      NpmPrefix \o <<"z">>,
      NpmPrefix \o <<Star>>,
      NpmPrefix \o <<"a", Star>>,
      NpmPrefix \o <<"a", Star, "a">>,
      NpmPrefix \o <<Star, Star>> }

\* The longest list of commands parseNpmScripts is tried with.
MaxNpmCmds == 2

NpmLists == UNION {[1..n -> NpmSamples] : n \in 1..MaxNpmCmds}

\* parseNpmScripts is going to be called with a manifest that parses or does
\* not, and a list of npm: commands.
InitNpm ==
    /\ InitRun
    /\ NoMatch /\ NoLines /\ NoCloses
    /\ mpc = "new"
    /\ cfgCmds \in NpmLists
    /\ pkg \in {"malformed", "ok"}
    /\ procs = << >>
    /\ maxNameLength = 0
    /\ newErr = "nil"
    /\ sub = [p \in Procs |-> "never"]
    /\ pty = [p \in Procs |-> "unopened"]
    /\ Scenario(TRUE, 0, 0, {0})
    /\ npmResult = << >>

\* parseNpmScripts(b, cmds) is called and returns.
ParseNpmScripts ==
    /\ npmResult = << >>
    /\ \E outcome \in parseNpmScripts(pkg, cfgCmds, PositionsOf(cfgCmds)) :
           npmResult' = <<outcome>>
    /\ UNCHANGED <<runVars, closeErrs, matchVars, linesVars>>

NpmSpec == InitNpm /\ [][ParseNpmScripts]_vars

\* ------------------------------------------------------- the output lock

\* Silent commands that write a line and end with status 0, uninterrupted.
InitLock ==
    /\ InitProgram
    /\ Scenario(TRUE, 0, MaxLines, {0})

\* Fair scheduling of the goroutines, the scanners included.  Nothing makes a
\* command write or end.
LockFairness ==
    /\ WF_vars(CoreNext)
    /\ \A p \in Procs : WF_vars(ScanRead(p))

LockSpec == InitLock /\ [][OutNext]_vars /\ LockFairness

\* The writer has called WriteLine and m.mutex.Lock() has not returned.
Waiting(w) == AtWriteLine(w) /\ wl[w] = "idle"

\* ------------------------------------------- ClosePipe called from outside

\* How many times ClosePipe is called for a process from outside its run.
MaxCloseCalls == 2

\* (*os.File).Close on one end of the pseudo-terminal: a nil *os.File (the
\* ptyPipe that Connect made has not been through openPipe) returns
\* os.ErrInvalid, a closed one os.ErrClosed, an open one is closed.
fileClose(f) ==
    IF f = "open" THEN "nil" ELSE IF f = "closed" THEN ErrClosed ELSE ErrInvalid

\* ClosePipe as it would be if it passed what Close returns to fatalOnErr.
ClosePipeCallFatal(p) ==
    /\ mpc # "exited"
    /\ pty[p] # "open"
    /\ Len(closeErrs[p]) < MaxCloseCalls
    /\ closeErrs' = [closeErrs EXCEPT
                        ![p] = Append(@, <<fileClose(pty[p])>>)]
    /\ mpc' = "exited"
    /\ cpc' = "dead"
    /\ rpc' = [q \in Procs |-> "dead"]
    /\ ipc' = [q \in Procs |-> "dead"]
    /\ kpc' = [q \in Procs |-> "dead"]
    /\ spc' = [q \in Procs |-> "dead"]
    /\ wl' = [w \in Writers |-> "idle"]
    /\ mutex' = NoOne
    /\ UNCHANGED <<newVars, silent, interrupts, lines, codes, matchVars,
                   npmResult, linesVars, timer, delivered, done, wg, procVars,
                   intCalls, killCalls, pty, ptyBuf, scanBuf, scanErr, tail,
                   sink>>

\* m.ClosePipe(proc), called by another than process.Run for a connected
\* process whose pseudo-terminal is not open: not yet opened, or closed by an
\* earlier call.  pipes[proc] is the ptyPipe Connect made, so both Close calls
\* are made; what they return is dropped, and neither end changes.
ClosePipeCall(p) ==
    /\ mpc # "exited"
    /\ pty[p] # "open"
    /\ Len(closeErrs[p]) < MaxCloseCalls
    /\ closeErrs' = [closeErrs EXCEPT
                        ![p] = Append(@, <<fileClose(pty[p]), fileClose(pty[p])>>)]
    /\ UNCHANGED <<runVars, matchVars, npmResult, linesVars>>

\* Silent commands that write nothing and end with status 0, uninterrupted.
InitClose ==
    /\ InitProgram
    /\ Scenario(TRUE, 0, 0, {0})

CloseNext ==
    \/ CoreNext
    \/ \E p \in Procs : ChildExit(p)
    \/ \E p \in Procs : ClosePipeCall(p)

CloseSpec == InitClose /\ [][CloseNext]_vars

\* ------------------------------------------------------ scanLines by itself

\* The line terminator, and the bytes of the streams scanLines is tried with.
NL == "\n"
LineChars == {"x", "y", NL}

\* The greatest length of a stream.
MaxBytes == 4

\* The size of the buffer of the bufio.Reader (4096 in the program).
BufSize == 2

\* scanLines is going to be called with a reader r that delivers the bytes of
\* a stream and then fails with an error, the end of the stream or another.
InitLines ==
    /\ Unstarted
    /\ NoMatch /\ NoScripts /\ NoCloses
    /\ stream \in Strings(LineChars, MaxBytes)
    /\ unread = stream
    /\ ending \in ReadErrors
    /\ reader = << >>
    /\ readerErr = "nil"
    /\ buf = << >>
    /\ called = << >>
    /\ ret = "none"

\* The bufio.Reader has no complete line buffered.
NoLineBuffered == Positions(reader, NL) = {}

\* reader.ReadLine() has to fill its buffer (bufio's fill): one read of r, which
\* delivers some of the bytes it has, as many as it likes and the buffer has
\* room for, or fails.  An error other than the end of the stream can come
\* before r has delivered everything; what it had is lost then.
Fill ==
    /\ ret = "none"
    /\ NoLineBuffered
    /\ readerErr = "nil"
    /\ Len(reader) < BufSize
    /\ \/ /\ unread # << >>
          /\ \E n \in 1..Min({Len(unread), BufSize - Len(reader)}) :
                /\ reader' = reader \o SubSeq(unread, 1, n)
                /\ unread' = SubSeq(unread, n + 1, Len(unread))
          /\ UNCHANGED <<stream, readerErr>>
       \/ /\ unread = << >> \/ ending # EOF
          /\ readerErr' = ending
          /\ stream' = SubSeq(stream, 1, Len(stream) - Len(unread))
          /\ unread' = << >>
          /\ UNCHANGED reader
    /\ UNCHANGED <<runVars, closeErrs, matchVars, npmResult, ending, buf, called, ret>>

\* reader.ReadLine() returns a line that ends in the buffer, without its
\* terminator and not as a prefix; the loop writes it to buf, invokes the
\* callback with what buf holds and resets buf.
ReadLineWhole ==
    /\ ret = "none"
    /\ ~NoLineBuffered
    /\ LET at == Min(Positions(reader, NL))
       IN  /\ called' = Append(called, buf \o SubSeq(reader, 1, at - 1))
           /\ reader' = SubSeq(reader, at + 1, Len(reader))
    /\ buf' = << >>
    /\ UNCHANGED <<runVars, closeErrs, matchVars, npmResult, stream, unread, ending,
                   readerErr, ret>>

\* reader.ReadLine() finds its buffer full without a terminator and returns
\* it as the prefix of a line; the loop writes it to buf.
ReadLinePrefix ==
    /\ ret = "none"
    /\ NoLineBuffered
    /\ readerErr = "nil"
    /\ Len(reader) = BufSize
    /\ buf' = buf \o reader
    /\ reader' = << >>
    /\ UNCHANGED <<runVars, closeErrs, matchVars, npmResult, stream, unread, ending,
                   readerErr, called, ret>>

\* reader.ReadLine() finds an error pending and no terminator buffered: with
\* bytes in the buffer it returns them as a line and no error (bufio's
\* ReadSlice hands out what is buffered and forgets the error), and the loop
\* invokes the callback as for any line; with none it returns the error, the
\* loop ends and scanLines returns.
ReadLineAtError ==
    /\ ret = "none"
    /\ NoLineBuffered
    /\ readerErr # "nil"
    /\ IF reader # << >>
         THEN /\ called' = Append(called, buf \o reader)
              /\ buf' = << >>
              /\ reader' = << >>
              /\ UNCHANGED ret
         ELSE /\ ret' = scanLinesReturn(readerErr)
              /\ UNCHANGED <<called, buf, reader>>
    /\ readerErr' = "nil"
    /\ UNCHANGED <<runVars, closeErrs, matchVars, npmResult, stream, unread, ending>>

LinesNext ==
    \/ Fill
    \/ ReadLineWhole
    \/ ReadLinePrefix
    \/ ReadLineAtError

LinesSpec == InitLines /\ [][LinesNext]_vars

\* ================================================================== claims

\* The process has exited: its child has died, or could not be spawned.
Exited(p) == child[p] = "dead" \/ runErr[p] = "spawn"

\* SIGKILL has been sent to the process group of p.
KillSent(p) == \E i \in 1..Len(sigSent[p]) : sigSent[p][i] = "KILL"

\* The manager has left its state Running.
ShutdownTriggered == cpc \in {"interrupt", "parked2", "kill", "done"}

\* C1: once a command has exited (and no interrupt request has been sent),
\* every other command that is alive after Kill() has been carried out on it
\* has been sent SIGKILL, one that had not been spawned when Kill() looked at
\* it included.
C1_EverySurvivorKilled ==
    \A p \in Procs :
        ( /\ delivered = 0
          /\ kpc[p] = "done"
          /\ child[p] = "alive"
          /\ \E q \in Procs \ {p} : Exited(q) )
        => KillSent(p)

\* C3: an interrupt request that arrives while the manager is in Running and
\* no process has exited is not dropped: the step that delivers it is the
\* manager's transition to Interrupting.
C3_InterruptNeverDropped ==
    [][ ( /\ delivered' = delivered + 1
          /\ ~AnyExited
          /\ cpc \in {"idle", "select1", "parked1"} )
        => cpc' = "interrupt" ]_vars

\* C4: once shutdown has been triggered the supervisor cannot be left waiting
\* on a process for ever: when no goroutine can take a step and no command
\* that was sent SIGKILL is alive, Run has returned.
C4_RunReturnsAfterShutdown ==
    ( /\ ShutdownTriggered
      /\ ~ENABLED CoreNext
      /\ \A p \in Procs : ~ENABLED ScanRead(p)
      /\ \A p \in Procs : ~(child[p] = "alive" /\ KillSent(p)) )
    => mpc = "returned"

\* C2: the exit of a process is never lost: while the manager is in Running a
\* reported exit is held in pm.done for its select, and every exit leads to
\* the manager leaving Running with Interrupt() invoked on every process.
C2_ExitLeadsToInterrupt ==
    /\ []( (\E p \in Procs : rpc[p] \in {"wgdone", "returned"}) =>
              \/ ShutdownTriggered
              \/ cpc \in {"idle", "select1"} /\ done > 0 )
    /\ (\E p \in Procs : Exited(p)) ~> (\A q \in Procs : intCalls[q] = 1)

\* C2, the case: every process has exited and reported it before the manager
\* first reaches its select, and no signal has been sent.
C2_Witness ==
    /\ cpc = "select1"
    /\ done = NumProcs
    /\ delivered = 0
    /\ \A p \in Procs : Exited(p)

\* C5: when Run has returned, the run goroutine of every process has
\* returned and no process is running.
C5_RunReturnsAfterAll ==
    mpc = "returned" =>
        \A p \in Procs : rpc[p] = "returned" /\ ~Running(p)

\* C5, the case: Run has returned after commands were spawned and waited for.
C5_Witness ==
    /\ mpc = "returned"
    /\ \A p \in Procs : Process[p] /\ ProcessState[p]

C7_SecondInterruptEscalates ==
    [][ ( /\ delivered = 1
          /\ delivered' = 2
          /\ ~AnyExited
          /\ cpc \in {"interrupt", "parked2"} )
        => cpc' = "kill" ]_vars

\* C8: Interrupt() and Kill() are each invoked at most once on each process,
\* whatever exits and interrupt requests follow the first.
C8_OneShutdownSequence ==
    \A p \in Procs : intCalls[p] <= 1 /\ killCalls[p] <= 1

\* C8, the case: the shutdown sequence is over, both interrupt requests have
\* been delivered, and exits of further processes are waiting in pm.done.
C8_Witness ==
    /\ cpc = "done"
    /\ delivered = MaxSignals
    /\ done > 0
    /\ \A p \in Procs : intCalls[p] = 1 /\ killCalls[p] = 1

\* The record WriteLine writes for process p with the given payload.
Record(p, kind, n) == << <<p, "label", 0>>, <<p, kind, n>> >>

\* C9: at most one writer is writing to the sink at a time, the unfinished
\* record at the end of the sink is the label of the writer that holds the
\* lock, and every finished record is the label and the payload of one process.
C9_RecordsAreAtomic ==
    /\ Cardinality({w \in Writers : wl[w] # "idle"}) <= 1
    /\ \A w \in Writers : wl[w] # "idle" =>
           mutex = w /\ tail = << <<w[2], "label", 0>> >>
    /\ (\A w \in Writers : wl[w] = "idle") => tail = << >>
    /\ \A p \in Procs : \A i \in 1..Len(sink[p]) :
           /\ Len(sink[p][i]) = 2
           /\ sink[p][i] = Record(p, sink[p][i][2][2], sink[p][i][2][3])
           /\ sink[p][i][2][2] # "label"

\* C9, the case: a scanner is writing a record while the run goroutine and
\* the Interrupt goroutine of another process are both calling WriteLine.
C9_Witness ==
    \E p, q \in Procs :
        /\ p # q
        /\ wl[<<"scan", p>>] = "writing"
        /\ AtWriteLine(<<"run", q>>)
        /\ AtWriteLine(<<"int", q>>)

\* C10: when Run has returned, every line a command wrote is in the sink,
\* labelled with the command.
C10_AllOutputForwarded ==
    mpc = "returned" =>
        \A p \in Procs : \A k \in 1..produced[p] :
            \E i \in 1..Len(sink[p]) : sink[p][i] = Record(p, "out", k)

\* C11: the lines of one command are in the sink in the order the command
\* wrote them: of two of its records that carry lines, the earlier record
\* carries the earlier line.
C11_LineOrderPreserved ==
    \A p \in Procs : \A i, j \in 1..Len(sink[p]) :
        (i < j /\ sink[p][i][2][2] = "out" /\ sink[p][j][2][2] = "out")
            => sink[p][i][2][3] < sink[p][j][2][3]

\* C11, the case: both lines of a command have been written while the other
\* command's writers were writing too.
C11_Witness ==
    \E p, q \in Procs :
        /\ p # q
        /\ sink[p] = <<Record(p, "out", 1), Record(p, "out", 2)>>
        /\ sink[q] # << >>

\* New has returned a manager.
Constructed == mpc \notin {"new", "failed"}

\* C12: of two processes whose commands derived the same label, the one whose
\* command was supplied first has the lower of the suffixes .1, .2, ...
C12_SuffixesInInputOrder ==
    Constructed =>
        \A i, j \in 1..Len(procs) :
            (procs[i].label = procs[j].label /\ procs[i].src < procs[j].src) =>
                \E m, n \in 1..Len(Digits) :
                    /\ m < n
                    /\ procs[i].name = Suffixed(procs[i].label, m)
                    /\ procs[j].name = Suffixed(procs[j].label, n)

\* C13: after construction no two processes have the same display name.
C13_NamesDistinct ==
    Constructed =>
        \A i, j \in 1..Len(procs) : procs[i].name = procs[j].name => i = j

\* C14: the maximum name length is the length of the longest display name,
\* the label of every process is written at the same width, and neither the
\* names nor the maximum change once New has returned.
C14_LabelsAligned ==
    /\ [](Constructed =>
            /\ \A i \in 1..Len(procs) : Len(procs[i].name) <= maxNameLength
            /\ procs # << >> =>
                   \E i \in 1..Len(procs) : Len(procs[i].name) = maxNameLength
            /\ \A i, j \in 1..Len(procs) : LabelWidth(i) = LabelWidth(j))
    /\ [][mpc # "new" => (maxNameLength' = maxNameLength /\ procs' = procs)]_vars

\* C14, the case: records have been written for two processes whose names
\* differ in length, the shorter name being the later one.
C14_Witness ==
    /\ Len(procs) = NumProcs
    /\ Len(procs[1].name) > Len(procs[NumProcs].name)
    /\ \A p \in Procs : sink[p] # << >>

\* C15: Interrupt() and Kill() send no signal to a process whose exit status
\* has been recorded: the step in which either of them signals the process
\* group is never taken once p.ProcessState is set.
C15_NoSignalAfterExit ==
    [][ \A p \in Procs :
          ( \/ ipc[p] = "signal" /\ ipc'[p] # "signal"
            \/ kpc[p] = "signal" /\ kpc'[p] # "signal" )
          => ~ProcessState[p] ]_vars

\* C16: when Run has returned, no member of a process group the supervisor
\* spawned is alive, unless SIGKILL has been sent to its group.
C16_NoGroupMemberSurvives ==
    mpc = "returned" =>
        \A p \in Procs :
            (child[p] = "alive" \/ sub[p] = "alive") => KillSent(p)

\* The records of process p that report the status its run ended with: the
\* error line of exit code 1 and the lines `exit status N`.
StatusRecords(p) ==
    {i \in 1..Len(sink[p]) :
        sink[p][i] = Record(p, "error", 1) \/ sink[p][i][2][2] = "exit status"}

\* process.Run of p is past its report of how p.Cmd.Run() ended.
Reported(p) == rpc[p] \in {"close", "send", "wgdone", "returned"}

\* C17: a run that ended with a non-zero exit status is reported by exactly
\* one record, the error line if the status is 1 and `exit status N` if it is
\* another N, and by none before; and once its goroutine has sent to pm.done
\* the exit is held for the coordinator or has triggered the shutdown.
C17_OneStatusRecord ==
    \A p \in Procs :
        /\ Cardinality(StatusRecords(p)) =
               (IF runErr[p] = "exit" /\ Reported(p) THEN 1 ELSE 0)
        /\ (runErr[p] = "exit" /\ Reported(p)) =>
               \E i \in 1..Len(sink[p]) :
                   sink[p][i] = IF exitCode[p] = 1
                                  THEN Record(p, "error", 1)
                                  ELSE Record(p, "exit status", exitCode[p])
        /\ (runErr[p] = "exit" /\ rpc[p] \in {"wgdone", "returned"}) =>
               \/ ShutdownTriggered
               \/ cpc \in {"idle", "select1"} /\ done > 0

\* C17, the case: one command has ended with status 1 and another with
\* status 2, and both have been reported.
C17_Witness ==
    \E p, q \in Procs :
        /\ exitCode[p] = 1
        /\ exitCode[q] = 2
        /\ StatusRecords(p) # {}
        /\ StatusRecords(q) # {}

IsAlias(i) == HasPrefix(CmdName(cfgCmds[i]), NpmPrefix)

\* The alias at position i of Config.Cmds names no script of the manifest and,
\* as a pattern, matches none.
MatchesNoScript(i) ==
    LET scriptName == TrimPrefix(cfgCmds[i], NpmPrefix)
    IN  /\ scriptName \notin ScriptNames
        /\ \/ Positions(scriptName, Star) = {}
           \/ \A name \in ScriptNames : ~wildcardMatch(scriptName, name)

C20_LocalFailureNeverEndsSupervisor ==
    mpc = "exited" =>
        \A p \in Procs : child[p] = "alive" => sigSent[p] # << >>

\* C21: wildcardMatch returns true for a pattern without a star iff the string
\* equals the pattern; for a pattern with one star iff the string is the part
\* before the star, then any string, then the part after it; and false for a
\* pattern with more than one star.
C21_WildcardContract ==
    matched # << >> =>
        LET stars == Positions(glob, Star)
            prefix == SubSeq(glob, 1, Min(stars) - 1)
            suffix == SubSeq(glob, Min(stars) + 1, Len(glob))
        IN  matched[1] =
                IF stars = {} THEN input = glob
                ELSE IF Cardinality(stars) = 1
                  THEN \E x \in Strings(MatchChars, MaxMatchLen) :
                          input = prefix \o x \o suffix
                ELSE FALSE

\* C22: called with a manifest that parses, parseNpmScripts returns an error
\* and no commands iff one of its commands names no script and, as a pattern
\* (the part before its star, any string, the part after it), matches none;
\* and the commands it returns otherwise are, for each of its commands in
\* turn, the script of that name if there is one and else each script its
\* pattern matches, once, all with the text of their scripts.
C22_NpmScriptsResolved ==
    (npmResult # << >> /\ pkg = "ok") =>
        LET out == npmResult[1]
            ScriptName(k) == TrimPrefix(cfgCmds[k], NpmPrefix)
            Matches(pat, name) ==
                /\ Cardinality(Positions(pat, Star)) = 1
                /\ \E x \in Strings(MatchChars, MaxMatchLen) :
                      name = SubSeq(pat, 1, Min(Positions(pat, Star)) - 1) \o x
                             \o SubSeq(pat, Min(Positions(pat, Star)) + 1, Len(pat))
            Wanted(k) ==
                IF ScriptName(k) \in ScriptNames THEN {ScriptName(k)}
                ELSE {name \in ScriptNames : Matches(ScriptName(k), name)}
            Got(k) == {i \in 1..Len(out.result) : out.result[i].src = k}
        IN  /\ out.err # "nil" <=> \E k \in 1..Len(cfgCmds) : Wanted(k) = {}
            /\ out.err # "nil" => out.result = << >>
            /\ out.err = "nil" =>
                  /\ \A k \in 1..Len(cfgCmds) :
                        /\ {out.result[i].name : i \in Got(k)} = Wanted(k)
                        /\ Cardinality(Got(k)) = Cardinality(Wanted(k))
                  /\ \A i \in 1..Len(out.result) :
                        out.result[i].cmd = ScriptText(out.result[i].name)
                  /\ \A i, j \in 1..Len(out.result) :
                        i < j => out.result[i].src <= out.result[j].src

\* C23: Run returns only after the manager has gone from Running to
\* Interrupting and from there to Killing: when Run has returned, the
\* coordinator has invoked Interrupt() and then Kill() on every process.
C23_DoneOnlyAfterKilling ==
    mpc = "returned" =>
        /\ cpc = "done"
        /\ \A p \in Procs : intCalls[p] = 1 /\ killCalls[p] = 1

\* C24: SIGKILL is never sent to the group of a process before SIGINT has
\* been sent to it.
C24_InterruptBeforeKill ==
    \A p \in Procs : \A i \in 1..Len(sigSent[p]) :
        sigSent[p][i] = "KILL" => \E j \in 1..(i - 1) : sigSent[p][j] = "INT"

\* C25: the grace timer is started when the manager has entered Interrupting
\* and not before: while the manager is in Running the timer is not set and
\* Kill() has not been invoked; the timer is set by the coordinator after its
\* loop of Interrupt() and fires only into the select that follows; and
\* Kill() is invoked on no process on which Interrupt() has not been.
C25_TimerArmedOnInterrupting ==
    /\ [](cpc \in {"idle", "select1", "parked1", "interrupt"} =>
             /\ timer = "unset"
             /\ \A p \in Procs : killCalls[p] = 0 /\ kpc[p] = "idle")
    /\ [](\A p \in Procs : killCalls[p] <= intCalls[p])
    /\ [][ timer' # timer =>
              \/ timer = "unset" /\ timer' = "armed" /\ cpc = "interrupt"
              \/ /\ timer = "armed" /\ timer' = "fired"
                 /\ cpc = "parked2" /\ cpc' = "kill" ]_vars

\* C25, the case: a command that had been running and writing since the start
\* was interrupted when another exited, and killed when the timer fired.
C25_Witness ==
    /\ timer = "fired"
    /\ delivered = 0
    /\ \E p \in Procs :
          /\ produced[p] = MaxLines
          /\ sigSent[p] = <<"INT", "KILL">>

\* p.signal of process p has failed and is about to report it (p.writeErr).
SignalFailing(p) == ipc[p] = "err" \/ kpc[p] = "err"

\* C26: a signal that cannot be delivered to a process changes nothing but the
\* position of the goroutine that tried, which then writes an error line of
\* that process; and it leads to Kill() invoked on every process and to Run
\* returning.
C26_SignalFailureIsLocal ==
    /\ [][ \A p \in Procs :
             (~SignalFailing(p) /\ SignalFailing(p)') =>
                 /\ UNCHANGED <<mpc, cpc, timer, done, wg, rpc, procVars, sink>>
                 /\ \A q \in Procs \ {p} : ipc'[q] = ipc[q] /\ kpc'[q] = kpc[q] ]_vars
    /\ [][ \A p \in Procs :
             (SignalFailing(p) /\ ~SignalFailing(p)') =>
                 sink'[p] = Append(sink[p], Record(p, "error", 0)) ]_vars
    /\ (\E p \in Procs : SignalFailing(p)) ~>
          /\ \A q \in Procs : ~SignalFailing(q) /\ killCalls[q] = 1
          /\ cpc = "done"
          /\ mpc = "returned"

\* C27: a read error of the pseudo-terminal of a process that is neither the
\* end of the stream nor its closure is not dropped: once scanLines has
\* returned it and Run has returned, there is an error line of that process.
C27_ReadErrorSurfaced ==
    mpc = "returned" =>
        \A p \in Procs :
            scanErr[p] = EIO =>
                \E i \in 1..Len(sink[p]) : sink[p][i][2][2] = "error"

\* C28: when scanLines has returned, the callback has been invoked once for
\* each terminated line of the bytes the reader delivered, in their order,
\* with the bytes of the line but for its terminator; and not for the bytes
\* after the last terminator.
C28_OneCallPerCompleteLine ==
    ret # "none" =>
        LET ends == Positions(stream, NL)
            End(k) == CHOOSE i \in ends : Cardinality({j \in ends : j <= i}) = k
            Start(k) == IF k = 1 THEN 1 ELSE End(k - 1) + 1
        IN  called = [k \in 1..Cardinality(ends) |->
                         SubSeq(stream, Start(k), End(k) - 1)]

\* C29: the scanner of a process returns no error when it stops because
\* ClosePipe closed the pseudo-terminal it was reading (or was about to read),
\* and an error when it stops on a failed read of the open pseudo-terminal.
C29_CloseIsNotAnError ==
    [][\A p \in Procs :
          scanErr[p] = "none" /\ scanErr'[p] # "none" =>
              IF pty'[p] = "closed" THEN scanErr'[p] = "nil"
                                    ELSE scanErr'[p] # "nil"]_vars

\* C30: the pseudo-terminal of a process is open whenever its command is about
\* to be started or is started and not reaped, and while its child is alive;
\* a command that has been started had its pseudo-terminal opened; and the
\* pseudo-terminal is closed once process.Run has returned, hence for every
\* process once Run has returned.
C30_PtyLifetime ==
    /\ \A p \in Procs :
          /\ rpc[p] \in {"start", "wait"} => pty[p] = "open"
          /\ child[p] = "alive" => pty[p] = "open"
          /\ Process[p] => pty[p] # "unopened"
          /\ rpc[p] \in {"send", "wgdone", "returned"} => pty[p] = "closed"
    /\ mpc = "returned" => \A p \in Procs : pty[p] = "closed"

\* C30: Run has returned after one command failed to start and another ended
\* with a status that is not zero.
C30_Witness ==
    /\ mpc = "returned"
    /\ \E p, q \in Procs : runErr[p] = "spawn" /\ runErr[q] = "exit"
    /\ \A p \in Procs : pty[p] = "closed"

\* C31: a call of ClosePipe for a process whose pseudo-terminal is not open
\* (never opened, or closed already) changes nothing of the run: the
\* program goes on, the pseudo-terminal of the process stays as it is and
\* so does that of every other process.
C31_ClosePipeIdempotent ==
    [][closeErrs' # closeErrs => UNCHANGED runVars]_vars

\* C31: ClosePipe has been called twice for a process whose pseudo-terminal
\* was closed, and for a process whose pseudo-terminal had not been opened
\* and was opened afterwards.
C31_Witness ==
    \E p, q \in Procs :
        /\ closeErrs[p] = <<<<ErrClosed, ErrClosed>>, <<ErrClosed, ErrClosed>>>>
        /\ closeErrs[q] # << >>
        /\ closeErrs[q][1] = <<ErrInvalid, ErrInvalid>>
        /\ pty[q] = "open"

\* C32: whoever holds the output lock is between the Lock and the Unlock of
\* WriteLine, writing one record; a writer stops waiting for the lock only by
\* getting it; and no writer waits for ever.
C32_LockIsAcquired ==
    /\ [](mutex # NoOne => wl[mutex] = "writing" /\ AtWriteLine(mutex))
    /\ [][\A w \in Writers : Waiting(w) /\ ~Waiting(w)' => mutex' = w]_vars
    /\ <>[](\A w \in Writers : ~Waiting(w))

\* C32: a scanner waits for the lock while the scanner of another process
\* holds it.
C32_Witness ==
    \E p, q \in Procs :
        /\ p # q
        /\ mutex = <<"scan", q>>
        /\ Waiting(<<"scan", p>>)

\* C33: a run thread at its `pm.done <- true` can always send; of the values
\* sent, all but at most the one the coordinator took are in the channel; and
\* no run thread stays at its send or at its procWg.Done() for ever.
C33_ExitReportNeverBlocks ==
    /\ [](\A p \in Procs : rpc[p] = "send" => ENABLED SendDone(p))
    /\ [](LET sent == Cardinality({p \in Procs :
                                       rpc[p] \in {"wgdone", "returned"}})
          IN  done \in {sent, sent - 1})
    /\ <>[](\A p \in Procs : rpc[p] \notin {"send", "wgdone"})

\* C33: every run thread has sent and returned, and the coordinator, woken by
\* a signal, has taken none of the values: the channel is full.
C33_Witness ==
    /\ done = NumProcs
    /\ \A p \in Procs : rpc[p] = "returned"

\* C34: when an Interrupt or Kill goroutine is about to evaluate p.Running(),
\* the run thread of the process is not about to set p.Process (Cmd.Start)
\* nor p.ProcessState (Cmd.Wait): the read and the write are never both the
\* next step of their goroutines.
C34_NoUnorderedRunningRead ==
    \A p \in Procs :
        ipc[p] = "check" \/ kpc[p] = "check" =>
            ~(ENABLED CmdStart(p) \/ ENABLED CmdWait(p))

====
